---- MODULE Spec2Model ----
(***************************************************************************)
(* k8s-danger-scan: the rule engine (pkg/rules), the scan orchestrator and *)
(* aggregator (pkg/scanner), the document loader (pkg/parser), the         *)
(* presenter (pkg/output) and the command line (cmd/k8s-danger-scan).      *)
(*                                                                         *)
(* Strings are TLA+ strings; Go's string concatenation is \o, and          *)
(* strings.Contains / strings.HasSuffix are computed on the characters.    *)
(* A decoded YAML value (interface{}) is a tagged record: [t |-> "nil"],   *)
(* [t |-> "bool", v |-> b], [t |-> "int", v |-> i], [t |-> "str", v |-> s],*)
(* [t |-> "map", v |-> m] with m a function from keys to values, and       *)
(* [t |-> "list", v |-> s] with s a sequence of values.                    *)
(***************************************************************************)
EXTENDS Integers, Sequences, FiniteSets, TLC

VARIABLES
    command,        \* os.Args[1] once main has read it ("lib" when the packages are called directly)
    includeMedium,  \* ScanOptions.IncludeMedium (--include-medium)
    format,         \* ScanOptions.OutputFormat: "human" or "json"
    paths,          \* os.Args[1:] at the start, the positional arguments once the flags are parsed
    fs,             \* the file system: path -> node
    writerOK,       \* whether writes to the formatter's io.Writer succeed
    pc,             \* position of the run
    oldResources,   \* resources loaded from the old side of a diff
    resources,      \* resources loaded for a scan / the new side of a diff
    findings,       \* result.Findings
    summary,        \* the types.Summary computed by GetSummary
    stdout,         \* what reached standard output
    stderr,         \* what reached standard error
    evaluated,      \* number of rule evaluations made so far
    err,            \* the error main holds: "" for nil, else what failed
    exitCode        \* the process exit code, NoExit while running

vars == <<command, includeMedium, format, paths, fs, writerOK, pc, oldResources,
          resources, findings, summary, stdout, stderr, evaluated, err, exitCode>>

-----------------------------------------------------------------------------
(* Decoded YAML values *)

Nil == [t |-> "nil"]
VBool(b) == [t |-> "bool", v |-> b]
VInt(i) == [t |-> "int", v |-> i]
VStr(s) == [t |-> "str", v |-> s]
VMap(m) == [t |-> "map", v |-> m]
VList(s) == [t |-> "list", v |-> s]

\* a nil or empty map[string]interface{}
EmptyMap == <<>>

\* m[k] on a Go map: the zero value (nil interface) when the key is missing
Field(m, k) == IF k \in DOMAIN m THEN m[k] ELSE Nil

\* v.(bool) && v
IsTrue(val) == val.t = "bool" /\ val.v

\* strings.HasSuffix(s, suffix)
HasSuffix(s, suffix) ==
    /\ Len(s) >= Len(suffix)
    /\ SubSeq(s, Len(s) - Len(suffix) + 1, Len(s)) = suffix

\* strings.Contains(s, substr)
Contains(s, substr) ==
    \E i \in 1..(Len(s) - Len(substr) + 1) :
        SubSeq(s, i, i + Len(substr) - 1) = substr

-----------------------------------------------------------------------------
(* types *)

High == "HIGH"
Medium == "MEDIUM"

ExitOK == 0
ExitMedium == 1
ExitHigh == 2
ExitError == 3

Finding(ruleID, severity, resource, reason, impact, fix) ==
    [ruleID |-> ruleID, severity |-> severity, kind |-> resource.kind,
     name |-> resource.name, namespace |-> resource.namespace,
     reason |-> reason, impact |-> impact, fix |-> fix]

-----------------------------------------------------------------------------
(* parser: kinds and pod-spec extraction *)

SupportedKinds ==
    {"Pod", "Deployment", "StatefulSet", "DaemonSet", "Job", "CronJob",
     "Service", "Role", "ClusterRole", "RoleBinding", "ClusterRoleBinding"}

\* IsSupportedKind answering true for every kind
IsSupportedKind_All(kind) == kind = kind

IsSupportedKind(kind) == kind \in SupportedKinds

\* GetPodSpec returns (spec, ok)
NoPodSpec == [ok |-> FALSE, spec |-> EmptyMap]

GetPodSpec(resource) ==
    IF resource.kind = "Pod"
    THEN [ok |-> TRUE, spec |-> resource.spec]
    ELSE LET template == Field(resource.spec, "template")
             jobTemplate == Field(resource.spec, "jobTemplate")
         IN  IF template.t = "map" /\ Field(template.v, "spec").t = "map"
             THEN [ok |-> TRUE, spec |-> Field(template.v, "spec").v]
             ELSE IF jobTemplate.t = "map"
                     /\ Field(jobTemplate.v, "spec").t = "map"
                     /\ Field(Field(jobTemplate.v, "spec").v, "template").t = "map"
                     /\ Field(Field(Field(jobTemplate.v, "spec").v, "template").v, "spec").t = "map"
                  THEN [ok |-> TRUE,
                        spec |-> Field(Field(Field(jobTemplate.v, "spec").v, "template").v, "spec").v]
                  ELSE NoPodSpec

\* podSpec["containers"].([]interface{}): the list, or the empty list when absent
ListOf(val) == IF val.t = "list" THEN val.v ELSE <<>>

-----------------------------------------------------------------------------
(* rules *)

\* the loop `for _, x := range xs { if match(x) { return finding } }; return nil`
\* hits[i] tells whether element i matches
\* the loop without its return: one finding for every matching element
FirstMatch_All(hits, i, finding) ==
    [k \in 1..Cardinality({j \in i..Len(hits) : hits[j]}) |-> finding]

RECURSIVE FirstMatch(_, _, _)
FirstMatch(hits, i, finding) ==
    IF i > Len(hits) THEN <<>>
    ELSE IF hits[i] THEN <<finding>>
    ELSE FirstMatch(hits, i + 1, finding)

\* podSpec["containers"].([]interface{}) and podSpec["volumes"].([]interface{})
Containers(ps) == ListOf(Field(ps.spec, "containers"))
Volumes(ps) == ListOf(Field(ps.spec, "volumes"))

\* container["securityContext"] of a container that is a map
ContainerSC(c) ==
    IF c.t = "map" THEN Field(c.v, "securityContext") ELSE Nil

CheckPrivilegedContainer(resource) ==
    LET ps == GetPodSpec(resource)
        Match(c) == /\ ContainerSC(c).t = "map"
                    /\ IsTrue(Field(ContainerSC(c).v, "privileged"))
    IN  IF ~ps.ok THEN <<>>
        ELSE FirstMatch([i \in 1..Len(Containers(ps)) |-> Match(Containers(ps)[i])], 1,
                Finding("privileged-container", High, resource,
                        "Container runs in privileged mode",
                        "Full host access if container is compromised",
                        "Remove privileged flag or set to false"))

\* CheckHostPath passing over the volumes whose hostPath is a socket
CheckHostPath_NotSockets(resource) ==
    LET ps == GetPodSpec(resource)
        Match(vol) ==
            /\ vol.t = "map"
            /\ "hostPath" \in DOMAIN vol.v
            /\ ~(/\ vol.v.hostPath.t = "map"
                 /\ Field(vol.v.hostPath.v, "path").t = "str"
                 /\ HasSuffix(Field(vol.v.hostPath.v, "path").v, ".sock"))
    IN  IF ~ps.ok THEN <<>>
        ELSE FirstMatch([i \in 1..Len(Volumes(ps)) |-> Match(Volumes(ps)[i])], 1,
                Finding("hostpath-volume", High, resource,
                        "Uses hostPath volume mount",
                        "Direct filesystem access enables container escape",
                        "Use PersistentVolumes or emptyDir instead"))

CheckHostPath(resource) ==
    LET ps == GetPodSpec(resource)
        Match(vol) == vol.t = "map" /\ "hostPath" \in DOMAIN vol.v
    IN  IF ~ps.ok THEN <<>>
        ELSE FirstMatch([i \in 1..Len(Volumes(ps)) |-> Match(Volumes(ps)[i])], 1,
                Finding("hostpath-volume", High, resource,
                        "Uses hostPath volume mount",
                        "Direct filesystem access enables container escape",
                        "Use PersistentVolumes or emptyDir instead"))

CheckDockerSocket(resource) ==
    LET ps == GetPodSpec(resource)
        Match(vol) ==
            /\ vol.t = "map"
            /\ Field(vol.v, "hostPath").t = "map"
            /\ Field(Field(vol.v, "hostPath").v, "path").t = "str"
            /\ Contains(Field(Field(vol.v, "hostPath").v, "path").v, "/var/run/docker.sock")
    IN  IF ~ps.ok THEN <<>>
        ELSE FirstMatch([i \in 1..Len(Volumes(ps)) |-> Match(Volumes(ps)[i])], 1,
                Finding("docker-socket-mount", High, resource,
                        "Mounts Docker socket from host",
                        "Grants root-equivalent access to the node",
                        "Remove Docker socket mount"))

\* runAsUser when no int is set
UnsetUser == -1

CheckRunsAsRoot(resource) ==
    LET ps == GetPodSpec(resource)
        podSC == Field(ps.spec, "securityContext")
        hasPodSC == podSC.t = "map"
        podRunAsNonRoot == hasPodSC /\ IsTrue(Field(podSC.v, "runAsNonRoot"))
        podRunAsUser == IF hasPodSC /\ Field(podSC.v, "runAsUser").t = "int"
                        THEN Field(podSC.v, "runAsUser").v ELSE UnsetUser
        Match(c) ==
            /\ c.t = "map"
            /\ LET sc == ContainerSC(c)
               IN  IF sc.t # "map"
                   THEN ~podRunAsNonRoot /\ podRunAsUser # 0
                   ELSE LET runAsNonRoot ==
                                IF Field(sc.v, "runAsNonRoot").t = "bool"
                                THEN Field(sc.v, "runAsNonRoot").v ELSE podRunAsNonRoot
                            runAsUser ==
                                IF Field(sc.v, "runAsUser").t = "int"
                                THEN Field(sc.v, "runAsUser").v ELSE podRunAsUser
                        IN  ~runAsNonRoot /\ (runAsUser = 0 \/ runAsUser = UnsetUser)
    IN  IF ~ps.ok THEN <<>>
        ELSE FirstMatch([i \in 1..Len(Containers(ps)) |-> Match(Containers(ps)[i])], 1,
                Finding("runs-as-root", Medium, resource,
                        "Container runs as root user (UID 0)",
                        "Increases blast radius of container compromise",
                        "Set runAsNonRoot: true or runAsUser to non-zero UID"))

CheckPrivilegeEscalation(resource) ==
    LET ps == GetPodSpec(resource)
        Match(c) == /\ ContainerSC(c).t = "map"
                    /\ IsTrue(Field(ContainerSC(c).v, "allowPrivilegeEscalation"))
    IN  IF ~ps.ok THEN <<>>
        ELSE FirstMatch([i \in 1..Len(Containers(ps)) |-> Match(Containers(ps)[i])], 1,
                Finding("privilege-escalation-allowed", High, resource,
                        "Allows privilege escalation within container",
                        "Enables container escape via kernel exploits",
                        "Set allowPrivilegeEscalation: false"))

\* the inner loops over rule.Verbs and rule.Resources
HasWildcard(strs) == \E i \in 1..Len(strs) : strs[i] = "*"

\* CheckWildcardRBAC looking for the two wildcards anywhere in the rule list
CheckWildcardRBAC_AnyEntry(resource) ==
    IF resource.kind # "Role" /\ resource.kind # "ClusterRole" THEN <<>>
    ELSE IF /\ \E i \in 1..Len(resource.rules) : HasWildcard(resource.rules[i].verbs)
            /\ \E i \in 1..Len(resource.rules) : HasWildcard(resource.rules[i].resources)
         THEN <<Finding("wildcard-rbac", High, resource,
                        "Grants wildcard permissions (verbs: *, resources: *)",
                        "Complete cluster control for any principal with this role",
                        "Specify explicit verbs and resources")>>
         ELSE <<>>

CheckWildcardRBAC(resource) ==
    LET Match(rule) == HasWildcard(rule.verbs) /\ HasWildcard(rule.resources)
    IN  IF resource.kind # "Role" /\ resource.kind # "ClusterRole" THEN <<>>
        ELSE FirstMatch([i \in 1..Len(resource.rules) |-> Match(resource.rules[i])], 1,
                Finding("wildcard-rbac", High, resource,
                        "Grants wildcard permissions (verbs: *, resources: *)",
                        "Complete cluster control for any principal with this role",
                        "Specify explicit verbs and resources"))

CheckClusterRoleBindingDefaultSA(resource) ==
    LET Match(subject) == subject.kind = "ServiceAccount" /\ subject.name = "default"
    IN  IF resource.kind # "ClusterRoleBinding" /\ resource.kind # "RoleBinding" THEN <<>>
        ELSE FirstMatch([i \in 1..Len(resource.subjects) |-> Match(resource.subjects[i])], 1,
                Finding("clusterrolebinding-default-sa", High, resource,
                        "Binds permissions to default service account",
                        "All pods without explicit SA inherit these permissions",
                        "Create and use a dedicated ServiceAccount"))

SensitiveNamespaces == {"kube-system", "prod", "production"}

CheckPublicLoadBalancer(resource) ==
    IF resource.kind # "Service" THEN <<>>
    ELSE IF resource.namespace \notin SensitiveNamespaces THEN <<>>
    ELSE IF Field(resource.spec, "type").t = "str"
            /\ Field(resource.spec, "type").v = "LoadBalancer"
         THEN <<Finding("public-loadbalancer", High, resource,
                        "LoadBalancer service in " \o resource.namespace \o " namespace",
                        "Exposes internal services directly to the internet",
                        "Use ClusterIP with Ingress, or add explicit justification")>>
         ELSE <<>>

\* CheckNodePort taking the annotation as a justification only when its value is "true"
CheckNodePort_ValueTrue(resource) ==
    IF resource.kind # "Service" THEN <<>>
    ELSE IF /\ Field(resource.spec, "type").t = "str"
            /\ Field(resource.spec, "type").v = "NodePort"
            /\ ~(/\ "danger-scan/nodeport-justified" \in DOMAIN resource.annotations
                 /\ resource.annotations["danger-scan/nodeport-justified"] = "true")
         THEN <<Finding("nodeport-service", Medium, resource,
                        "NodePort service without justification annotation",
                        "Bypasses ingress controls and exposes port on all nodes",
                        "Use ClusterIP/LoadBalancer or add annotation: danger-scan/nodeport-justified")>>
         ELSE <<>>

CheckNodePort(resource) ==
    IF resource.kind # "Service" THEN <<>>
    ELSE IF /\ Field(resource.spec, "type").t = "str"
            /\ Field(resource.spec, "type").v = "NodePort"
            /\ "danger-scan/nodeport-justified" \notin DOMAIN resource.annotations
         THEN <<Finding("nodeport-service", Medium, resource,
                        "NodePort service without justification annotation",
                        "Bypasses ingress controls and exposes port on all nodes",
                        "Use ClusterIP/LoadBalancer or add annotation: danger-scan/nodeport-justified")>>
         ELSE <<>>

CheckLatestTag(resource) ==
    LET ps == GetPodSpec(resource)
        Match(c) ==
            /\ c.t = "map"
            /\ Field(c.v, "image").t = "str"
            /\ \/ HasSuffix(Field(c.v, "image").v, ":latest")
               \/ ~Contains(Field(c.v, "image").v, ":")
    IN  IF ~ps.ok THEN <<>>
        ELSE FirstMatch([i \in 1..Len(Containers(ps)) |-> Match(Containers(ps)[i])], 1,
                Finding("latest-image-tag", Medium, resource,
                        "Uses :latest or untagged image",
                        "Non-reproducible deployments and potential supply chain risk",
                        "Pin to specific image digest or semantic version"))

CheckHostNetwork(resource) ==
    LET ps == GetPodSpec(resource)
    IN  IF ~ps.ok THEN <<>>
        ELSE IF IsTrue(Field(ps.spec, "hostNetwork"))
        THEN <<Finding("host-network", High, resource,
                       "Uses host network namespace",
                       "Bypasses network policies and accesses host network",
                       "Remove hostNetwork or set to false")>>
        ELSE <<>>

\* CheckHostPIDIPC looking at hostIPC before hostPID
CheckHostPIDIPC_IPCFirst(resource) ==
    LET ps == GetPodSpec(resource)
    IN  IF ~ps.ok THEN <<>>
        ELSE IF IsTrue(Field(ps.spec, "hostIPC"))
        THEN <<Finding("host-pid-ipc", High, resource,
                       "Uses host IPC namespace",
                       "Can access shared memory and semaphores on host",
                       "Remove hostIPC or set to false")>>
        ELSE IF IsTrue(Field(ps.spec, "hostPID"))
        THEN <<Finding("host-pid-ipc", High, resource,
                       "Uses host PID namespace",
                       "Can inspect and kill processes on the host",
                       "Remove hostPID or set to false")>>
        ELSE <<>>

CheckHostPIDIPC(resource) ==
    LET ps == GetPodSpec(resource)
    IN  IF ~ps.ok THEN <<>>
        ELSE IF IsTrue(Field(ps.spec, "hostPID"))
        THEN <<Finding("host-pid-ipc", High, resource,
                       "Uses host PID namespace",
                       "Can inspect and kill processes on the host",
                       "Remove hostPID or set to false")>>
        ELSE IF IsTrue(Field(ps.spec, "hostIPC"))
        THEN <<Finding("host-pid-ipc", High, resource,
                       "Uses host IPC namespace",
                       "Can access shared memory and semaphores on host",
                       "Remove hostIPC or set to false")>>
        ELSE <<>>

\* the number of rules AllRules returns
NumRules == 12

\* AllRules()[i](resource)
ApplyRule(i, resource) ==
    CASE i = 1 -> CheckPrivilegedContainer(resource)
      [] i = 2 -> CheckHostPath(resource)
      [] i = 3 -> CheckDockerSocket(resource)
      [] i = 4 -> CheckRunsAsRoot(resource)
      [] i = 5 -> CheckPrivilegeEscalation(resource)
      [] i = 6 -> CheckWildcardRBAC(resource)
      [] i = 7 -> CheckClusterRoleBindingDefaultSA(resource)
      [] i = 8 -> CheckPublicLoadBalancer(resource)
      [] i = 9 -> CheckNodePort(resource)
      [] i = 10 -> CheckLatestTag(resource)
      [] i = 11 -> CheckHostNetwork(resource)
      [] i = 12 -> CheckHostPIDIPC(resource)

-----------------------------------------------------------------------------
(* scanner: Scan, Diff, GetSummary, GetExitCode *)

\* the inner loop of Scan: every rule, in AllRules order, on one resource
RECURSIVE ScanRules(_, _)
ScanRules(resource, i) ==
    IF i > NumRules THEN <<>>
    ELSE ApplyRule(i, resource) \o ScanRules(resource, i + 1)

\* the outer loop of Scan: unsupported kinds are skipped
RECURSIVE ScanResources(_, _)
ScanResources(rs, i) ==
    IF i > Len(rs) THEN <<>>
    ELSE (IF ~IsSupportedKind(rs[i].kind) THEN <<>> ELSE ScanRules(rs[i], 1))
         \o ScanResources(rs, i + 1)

RECURSIVE FilterHighFrom(_, _)
FilterHighFrom(fs_, i) ==
    IF i > Len(fs_) THEN <<>>
    ELSE (IF fs_[i].severity = High THEN <<fs_[i]>> ELSE <<>>)
         \o FilterHighFrom(fs_, i + 1)

\* filterHighOnly with `break` for `continue`: stops at the first finding that is not HIGH
RECURSIVE FilterHighUntil(_, _)
FilterHighUntil(fs_, i) ==
    IF i > Len(fs_) \/ fs_[i].severity # High THEN <<>>
    ELSE <<fs_[i]>> \o FilterHighUntil(fs_, i + 1)

filterHighOnly_Break(fs_) == FilterHighUntil(fs_, 1)

filterHighOnly(fs_) == FilterHighFrom(fs_, 1)

\* Scan reporting each rule once per call: a finding is dropped when an
\* earlier finding of the same call has its ruleID
Scan_OncePerRule(rs, inclMedium) ==
    LET all == IF ~inclMedium THEN filterHighOnly(ScanResources(rs, 1))
               ELSE ScanResources(rs, 1)
        keep == {i \in 1..Len(all) : \A j \in 1..(i - 1) : all[j].ruleID # all[i].ruleID}
    IN  [k \in 1..Cardinality(keep) |->
            all[CHOOSE i \in keep : Cardinality({j \in keep : j < i}) = k - 1]]

\* Scan without the severity filter
Scan_NoFilter(rs, inclMedium) == ScanResources(rs, 1)

Scan(rs, inclMedium) ==
    IF ~inclMedium
    THEN filterHighOnly(ScanResources(rs, 1))
    ELSE ScanResources(rs, 1)

\* the number of rule calls Scan makes on rs
RuleCalls(rs) ==
    NumRules * Cardinality({i \in 1..Len(rs) : IsSupportedKind(rs[i].kind)})

findingKey(f) ==
    f.ruleID \o "|" \o f.kind \o "|" \o f.name \o "|" \o f.namespace

\* the second loop of Diff: the new findings whose key is not in oldFindingsSet
RECURSIVE DiffFrom(_, _, _)
DiffFrom(newFindings, oldFindingsSet, i) ==
    IF i > Len(newFindings) THEN <<>>
    ELSE (IF findingKey(newFindings[i]) \notin oldFindingsSet
          THEN <<newFindings[i]>> ELSE <<>>)
         \o DiffFrom(newFindings, oldFindingsSet, i + 1)

\* Diff scanning the old side with the default options (HIGH only)
Diff_OldDefaultOptions(oldRs, newRs, inclMedium) ==
    LET oldFindings == Scan(oldRs, FALSE)
        newFindings == Scan(newRs, inclMedium)
        oldFindingsSet == {findingKey(oldFindings[i]) : i \in 1..Len(oldFindings)}
    IN  DiffFrom(newFindings, oldFindingsSet, 1)

\* Diff that never fills oldFindingsSet
Diff_EmptyOldSet(oldRs, newRs, inclMedium) ==
    DiffFrom(Scan(newRs, inclMedium), {}, 1)

Diff(oldRs, newRs, inclMedium) ==
    LET oldFindings == Scan(oldRs, inclMedium)
        newFindings == Scan(newRs, inclMedium)
        oldFindingsSet == {findingKey(oldFindings[i]) : i \in 1..Len(oldFindings)}
    IN  DiffFrom(newFindings, oldFindingsSet, 1)

\* how many findings of fs_ have the severity sev (summary.High++ / summary.Medium++)
RECURSIVE CountSeverity(_, _, _)
CountSeverity(fs_, sev, i) ==
    IF i > Len(fs_) THEN 0
    ELSE (IF fs_[i].severity = sev THEN 1 ELSE 0) + CountSeverity(fs_, sev, i + 1)

\* resourceKey without the kind
resourceKey_NameOnly(f) == f.name

resourceKey(f) == f.kind \o "/" \o f.name

GetSummary(fs_) ==
    LET resourceSet == {resourceKey(fs_[i]) : i \in 1..Len(fs_)}
        namespaceSet == {fs_[i].namespace : i \in {j \in 1..Len(fs_) : fs_[j].namespace # ""}}
    IN  [high |-> CountSeverity(fs_, High, 1),
         medium |-> CountSeverity(fs_, Medium, 1),
         resourcesAffected |-> Cardinality(resourceSet),
         namespacesAffected |-> Cardinality(namespaceSet)]

\* GetExitCode deciding on the last finding only
GetExitCode_LastWins(fs_) ==
    IF fs_ = <<>> THEN ExitOK
    ELSE IF fs_[Len(fs_)].severity = High THEN ExitHigh
    ELSE IF fs_[Len(fs_)].severity = Medium THEN ExitMedium
    ELSE ExitOK

GetExitCode(fs_) ==
    LET hasHigh == \E i \in 1..Len(fs_) : fs_[i].severity = High
        hasMedium == \E i \in 1..Len(fs_) :
                        fs_[i].severity # High /\ fs_[i].severity = Medium
    IN  IF hasHigh THEN ExitHigh
        ELSE IF hasMedium THEN ExitMedium
        ELSE ExitOK

-----------------------------------------------------------------------------
(* Inputs: the resources the runs are made on *)

K8sResource(kind, name, namespace, annotations, spec, rules, subjects) ==
    [kind |-> kind, name |-> name, namespace |-> namespace,
     annotations |-> annotations, spec |-> spec, rules |-> rules,
     subjects |-> subjects]

\* one privileged container, otherwise hardened: privileged-container only
PrivilegedSpec ==
    [containers |-> VList(<<VMap(
        [image |-> VStr("nginx:1.25"),
         securityContext |-> VMap([privileged |-> VBool(TRUE),
                                   runAsNonRoot |-> VBool(TRUE)])])>>)]

\* privileged-container, runs-as-root, latest-image-tag and host-network
RiskySpec ==
    [hostNetwork |-> VBool(TRUE),
     containers |-> VList(<<VMap(
        [image |-> VStr("nginx"),
         securityContext |-> VMap([privileged |-> VBool(TRUE)])])>>)]

\* no risky field
CleanSpec ==
    [containers |-> VList(<<VMap(
        [image |-> VStr("nginx:1.25"),
         securityContext |-> VMap([runAsNonRoot |-> VBool(TRUE)])])>>)]

Pool ==
    { K8sResource("Pod", "a|b", "c", EmptyMap, PrivilegedSpec, <<>>, <<>>),
      K8sResource("Pod", "a", "b|c", EmptyMap, PrivilegedSpec, <<>>, <<>>),
      K8sResource("Pod", "a", "c", EmptyMap, RiskySpec, <<>>, <<>>),
      K8sResource("Service", "a", "c", EmptyMap, [type |-> VStr("NodePort")], <<>>, <<>>),
      K8sResource("ClusterRole", "admin", "", EmptyMap, EmptyMap,
                  <<[resources |-> <<"*">>, verbs |-> <<"*">>]>>, <<>>),
      K8sResource("Deployment", "a", "c", EmptyMap,
                  [template |-> VMap([spec |-> VMap(CleanSpec)])], <<>>, <<>>),
      K8sResource("ConfigMap", "a", "c", EmptyMap,
                  [template |-> VMap([spec |-> VMap(RiskySpec)])], <<>>, <<>>) }

\* the longest pair of resource lists (old and new together) a run is made on
MaxRes == 3

ResLists(n) == UNION {[1..k -> Pool] : k \in 0..n}

\* exitCode while the process runs: no exit code
NoExit == ExitOK - 1
NoSummary == [high |-> -1, medium |-> -1, resourcesAffected |-> -1,
              namespacesAffected |-> -1]

-----------------------------------------------------------------------------
(* The scanner package called directly: NewScanner(options), then Scan or  *)
(* Diff, then GetSummary and GetExitCode on the result.                    *)

Init ==
    /\ command = "lib"
    /\ includeMedium \in BOOLEAN
    /\ format = "human"
    /\ paths = <<>>
    /\ fs = <<>>
    /\ writerOK = TRUE
    /\ pc = "ready"
    /\ oldResources \in ResLists(MaxRes)
    /\ resources \in ResLists(MaxRes - Len(oldResources))
    /\ findings = <<>>
    /\ summary = NoSummary
    /\ stdout = <<>>
    /\ stderr = <<>>
    /\ evaluated = 0
    /\ err = ""
    /\ exitCode = NoExit

\* s.Scan(resources)
CallScan ==
    /\ pc = "ready"
    /\ findings' = Scan(resources, includeMedium)
    /\ evaluated' = evaluated + RuleCalls(resources)
    /\ pc' = "scanned"
    /\ UNCHANGED <<command, includeMedium, format, paths, fs, writerOK,
                   oldResources, resources, summary, stdout, stderr, err, exitCode>>

\* s.Diff(old, resources), old being the old list or the new list itself
CallDiff ==
    /\ pc = "ready"
    /\ \E old \in {oldResources, resources} :
        /\ oldResources' = old
        /\ findings' = Diff(old, resources, includeMedium)
        /\ evaluated' = evaluated + RuleCalls(old) + RuleCalls(resources)
    /\ pc' = "diffed"
    /\ UNCHANGED <<command, includeMedium, format, paths, fs, writerOK,
                   resources, summary, stdout, stderr, err, exitCode>>

\* scanner.GetSummary(result.Findings)
CallGetSummary ==
    /\ pc \in {"scanned", "diffed"}
    /\ summary = NoSummary
    /\ summary' = GetSummary(findings)
    /\ UNCHANGED <<command, includeMedium, format, paths, fs, writerOK, pc,
                   oldResources, resources, findings, stdout, stderr,
                   evaluated, err, exitCode>>

\* scanner.GetExitCode(result.Findings)
CallGetExitCode ==
    /\ pc \in {"scanned", "diffed"}
    /\ summary # NoSummary
    /\ exitCode = NoExit
    /\ exitCode' = GetExitCode(findings)
    /\ UNCHANGED <<command, includeMedium, format, paths, fs, writerOK, pc,
                   oldResources, resources, findings, summary, stdout, stderr,
                   evaluated, err>>

Next == CallScan \/ CallDiff \/ CallGetSummary \/ CallGetExitCode

Spec == Init /\ [][Next]_vars

-----------------------------------------------------------------------------
(* Properties of Scan, Diff, GetSummary and GetExitCode (specification Spec) *)

\* the identity tuple of a finding
Identity(f) == <<f.ruleID, f.kind, f.name, f.namespace>>

Range(s) == {s[i] : i \in 1..Len(s)}

IsHigh(f) == f.severity = High

Called == pc \in {"scanned", "diffed"}

\* C1: Diff(X, X) is the empty finding list, for every resource list X and
\* either value of include-medium.
C1_DiffSelfEmpty ==
    (pc = "diffed" /\ oldResources = resources) => findings = <<>>

C1_Witness ==
    /\ pc = "diffed"
    /\ oldResources = resources
    /\ Len(resources) >= 2
    /\ includeMedium
    /\ \E f \in Range(Scan(resources, includeMedium)) : f.severity = Medium
    /\ findings = <<>>

\* C2: Diff(old, new) is the sequence of the findings of Scan(new), in order,
\* whose identity tuple (ruleID, kind, name, namespace) is the identity tuple
\* of no finding of Scan(old).
C2_DiffByIdentityTuple ==
    pc = "diffed" =>
        LET oldIds == {Identity(f) : f \in Range(Scan(oldResources, includeMedium))}
            IsNew(f) == Identity(f) \notin oldIds
        IN  findings = SelectSeq(Scan(resources, includeMedium), IsNew)

\* C3 as stated: when new is old followed by one resource r that triggers a
\* rule R, Diff(old, new) is exactly one finding, for R, on r.
C3_Original ==
    (/\ pc = "diffed"
     /\ Len(resources) = Len(oldResources) + 1
     /\ SubSeq(resources, 1, Len(oldResources)) = oldResources) =>
        LET r == resources[Len(resources)]
        IN  \A i \in 1..NumRules :
                ApplyRule(i, r) # <<>> =>
                    /\ Len(findings) = 1
                    /\ Identity(findings[1]) = Identity(ApplyRule(i, r)[1])

\* C3 amended: when new is old followed by one resource r, Diff(old, new) is
\* the sequence of the findings of Scan on r alone whose key is the key of no
\* finding of Scan(old); each has the kind, name and namespace of r, and
\* there is one for a rule R exactly when r is of a supported kind, triggers
\* R, R passes the severity filter, and the key is not an old one.
C3_DiffOfAddedResource ==
    (/\ pc = "diffed"
     /\ Len(resources) = Len(oldResources) + 1
     /\ SubSeq(resources, 1, Len(oldResources)) = oldResources) =>
        LET r == resources[Len(resources)]
            oldKeys == {findingKey(f) : f \in Range(Scan(oldResources, includeMedium))}
            IsNew(f) == findingKey(f) \notin oldKeys
        IN  /\ findings = SelectSeq(Scan(<<r>>, includeMedium), IsNew)
            /\ \A f \in Range(findings) :
                    f.kind = r.kind /\ f.name = r.name /\ f.namespace = r.namespace
            /\ \A i \in 1..NumRules :
                    LET fi == ApplyRule(i, r)
                    IN  (fi # <<>> /\ fi[1] \in Range(findings))
                        <=> /\ fi # <<>>
                            /\ IsSupportedKind(r.kind)
                            /\ (includeMedium \/ fi[1].severity = High)
                            /\ findingKey(fi[1]) \notin oldKeys
            /\ Len(findings) <= NumRules

C3_Witness ==
    /\ pc = "diffed"
    /\ Len(oldResources) >= 1
    /\ Len(resources) = Len(oldResources) + 1
    /\ SubSeq(resources, 1, Len(oldResources)) = oldResources
    /\ Scan(oldResources, includeMedium) # <<>>
    /\ Len(findings) = 1
    /\ findings[1].ruleID = "privileged-container"

\* C4: Scan without include-medium returns exactly the HIGH findings of Scan
\* with include-medium on the same resources, in the same order.
C4_ScanHighOnlyIsFilter ==
    (pc = "scanned" /\ ~includeMedium) =>
        /\ findings = SelectSeq(Scan(resources, TRUE), IsHigh)
        /\ \A f \in Range(findings) : f.severity # Medium

C4_Witness ==
    /\ pc = "scanned"
    /\ ~includeMedium
    /\ Len(findings) >= 3
    /\ LET all == Scan(resources, TRUE)
       IN  \E i, j, k \in 1..Len(all) :
              /\ i < j /\ j < k
              /\ all[i].severity = High
              /\ all[j].severity = Medium
              /\ all[k].severity = High

\* C5: GetExitCode is 2 when some finding is HIGH, 1 when none is HIGH and
\* some is MEDIUM, 0 otherwise; never 3; whatever the order of the findings.
C5_ExitCodeBySeverity ==
    (Called /\ exitCode # NoExit) =>
        LET sevs == {f.severity : f \in Range(findings)}
        IN  /\ exitCode = ExitHigh <=> High \in sevs
            /\ exitCode = ExitMedium <=> (High \notin sevs /\ Medium \in sevs)
            /\ exitCode = ExitOK <=> (High \notin sevs /\ Medium \notin sevs)
            /\ exitCode # ExitError

C5_Witness ==
    /\ Called
    /\ exitCode = ExitHigh
    /\ Len(findings) >= 2
    /\ findings[Len(findings)].severity = Medium

\* C6: GetSummary counts the HIGH and the MEDIUM findings (together all the
\* findings), the distinct (kind, name) pairs and the distinct non-empty
\* namespaces of a finding list produced by Scan or Diff.
C6_SummaryCounts ==
    (Called /\ summary # NoSummary) =>
        /\ summary.high = Cardinality({i \in 1..Len(findings) : findings[i].severity = High})
        /\ summary.medium = Cardinality({i \in 1..Len(findings) : findings[i].severity = Medium})
        /\ summary.high + summary.medium = Len(findings)
        /\ summary.resourcesAffected =
              Cardinality({<<f.kind, f.name>> : f \in Range(findings)})
        /\ summary.namespacesAffected =
              Cardinality({f.namespace : f \in Range(findings)} \ {""})

C6_Witness ==
    /\ Called
    /\ summary # NoSummary
    /\ summary.resourcesAffected >= 2
    /\ summary.resourcesAffected < Len(findings)
    /\ summary.namespacesAffected >= 1
    /\ summary.namespacesAffected < summary.resourcesAffected
    /\ \E f \in Range(findings) : f.namespace = ""
    /\ \E f, g \in Range(findings) : f.name = g.name /\ f.kind # g.kind

-----------------------------------------------------------------------------
(* parser: ParseYAML, parseFile, ParseFiles                                *)
(*                                                                         *)
(* A file's content is [readable, docs]; a document is a resource, an      *)
(* empty document, a document of malformed syntax (decoder.Decode fails)   *)
(* or a mapping that does not fit K8sResource (parseResource fails).       *)

DocResource(r) == [d |-> "resource", r |-> r]
DocEmpty == [d |-> "empty"]
DocMalformed == [d |-> "malformed"]
DocMistyped == [d |-> "mistyped"]

ParseOK(rs) == [err |-> FALSE, resources |-> rs]
ParseFailed == [err |-> TRUE, resources |-> <<>>]

\* the decode loop of ParseYAML, from document i on, acc being the resources so far
RECURSIVE ParseYAMLFrom(_, _, _)
ParseYAMLFrom(docs, i, acc) ==
    IF i > Len(docs) THEN ParseOK(acc)
    ELSE IF docs[i].d = "malformed" THEN ParseFailed
    ELSE IF docs[i].d = "empty" THEN ParseYAMLFrom(docs, i + 1, acc)
    ELSE IF docs[i].d = "mistyped" THEN ParseFailed
    ELSE ParseYAMLFrom(docs, i + 1, Append(acc, docs[i].r))

ParseYAML(docs) == ParseYAMLFrom(docs, 1, <<>>)

parseFile(content) ==
    IF ~content.readable THEN ParseFailed ELSE ParseYAML(content.docs)

\* the suffix test of the walk function
IsYAMLName(p) == HasSuffix(p, ".yaml") \/ HasSuffix(p, ".yml")

LoadOK(rs, warns) == [err |-> FALSE, resources |-> rs, warnings |-> warns]
LoadFailed(warns) == [err |-> TRUE, resources |-> <<>>, warnings |-> warns]

\* filepath.Walk over the entries of a directory, in lexical order, from
\* entry j on; acc and warns are the resources and the warnings so far
RECURSIVE WalkFrom(_, _, _, _)
WalkFrom(entries, j, acc, warns) ==
    IF j > Len(entries) THEN LoadOK(acc, warns)
    ELSE LET e == entries[j]
         IN  IF e.walkErr THEN LoadFailed(warns)
             ELSE IF ~e.isDir /\ IsYAMLName(e.name)
             THEN LET res == parseFile(e.content)
                  IN  IF res.err
                      THEN WalkFrom(entries, j + 1, acc,
                                    Append(warns, <<"Warning: failed to parse", e.name>>))
                      ELSE WalkFrom(entries, j + 1, acc \o res.resources, warns)
             ELSE WalkFrom(entries, j + 1, acc, warns)

\* WalkFrom returning the walk function's parse error instead of logging it
RECURSIVE WalkFrom_Abort(_, _, _, _)
WalkFrom_Abort(entries, j, acc, warns) ==
    IF j > Len(entries) THEN LoadOK(acc, warns)
    ELSE LET e == entries[j]
         IN  IF e.walkErr THEN LoadFailed(warns)
             ELSE IF ~e.isDir /\ IsYAMLName(e.name)
             THEN LET res == parseFile(e.content)
                  IN  IF res.err THEN LoadFailed(warns)
                      ELSE WalkFrom_Abort(entries, j + 1, acc \o res.resources, warns)
             ELSE WalkFrom_Abort(entries, j + 1, acc, warns)

Walk_Abort(entries, acc, warns) == WalkFrom_Abort(entries, 1, acc, warns)

Walk(entries, acc, warns) == WalkFrom(entries, 1, acc, warns)

\* the loop of ParseFiles, from path i on
RECURSIVE ParseFilesFrom(_, _, _, _, _)
ParseFilesFrom(ps, fsys, i, acc, warns) ==
    IF i > Len(ps) THEN LoadOK(acc, warns)
    ELSE LET node == fsys[ps[i]]
         IN  IF node.type = "missing" THEN LoadFailed(warns)
             ELSE IF node.type = "dir"
             THEN LET w == Walk(node.entries, acc, warns)
                  IN  IF w.err THEN LoadFailed(w.warnings)
                      ELSE ParseFilesFrom(ps, fsys, i + 1, w.resources, w.warnings)
             ELSE LET res == parseFile(node.content)
                  IN  IF res.err THEN LoadFailed(warns)
                      ELSE ParseFilesFrom(ps, fsys, i + 1, acc \o res.resources, warns)

\* ParseFiles returning what it has loaded so far along with the error
RECURSIVE ParseFilesFrom_KeepLoaded(_, _, _, _, _)
ParseFilesFrom_KeepLoaded(ps, fsys, i, acc, warns) ==
    IF i > Len(ps) THEN LoadOK(acc, warns)
    ELSE LET node == fsys[ps[i]]
         IN  IF node.type = "missing"
             THEN [err |-> TRUE, resources |-> acc, warnings |-> warns]
             ELSE IF node.type = "dir"
             THEN LET w == Walk(node.entries, acc, warns)
                  IN  IF w.err THEN [err |-> TRUE, resources |-> acc, warnings |-> w.warnings]
                      ELSE ParseFilesFrom_KeepLoaded(ps, fsys, i + 1, w.resources, w.warnings)
             ELSE LET res == parseFile(node.content)
                  IN  IF res.err THEN [err |-> TRUE, resources |-> acc, warnings |-> warns]
                      ELSE ParseFilesFrom_KeepLoaded(ps, fsys, i + 1,
                                                     acc \o res.resources, warns)

ParseFiles_KeepLoaded(ps, fsys) == ParseFilesFrom_KeepLoaded(ps, fsys, 1, <<>>, <<>>)

ParseFiles(ps, fsys) == ParseFilesFrom(ps, fsys, 1, <<>>, <<>>)

-----------------------------------------------------------------------------
(* output: Formatter.Output                                                *)

\* the lines outputHuman prints for finding i
FindingBlock(fs_, i) ==
    (IF i > 1 THEN <<<<"">>>> ELSE <<>>)
    \o << <<fs_[i].severity \o " RISK">>,
          <<"Resource: " \o fs_[i].kind \o "/" \o fs_[i].name>> >>
    \o (IF fs_[i].namespace # "" THEN <<<<"Namespace: " \o fs_[i].namespace>>>> ELSE <<>>)
    \o << <<"Rule: " \o fs_[i].ruleID>>,
          <<"Reason: " \o fs_[i].reason>>,
          <<"Impact: " \o fs_[i].impact>>,
          <<"Fix: " \o fs_[i].fix>> >>

RECURSIVE FindingBlocks(_, _)
FindingBlocks(fs_, i) ==
    IF i > Len(fs_) THEN <<>>
    ELSE FindingBlock(fs_, i) \o FindingBlocks(fs_, i + 1)

\* what outputHuman sends to the writer; a line is <<text>> or <<text, number>>
HumanLines(fs_, sum) ==
    IF Len(fs_) = 0 THEN <<<<"No security issues found.">>>>
    ELSE FindingBlocks(fs_, 1)
         \o << <<"">>, <<"SUMMARY">>,
               <<"High risk: ", sum.high>>,
               <<"Medium risk: ", sum.medium>>,
               <<"Resources affected: ", sum.resourcesAffected>> >>
         \o (IF sum.namespacesAffected > 0
             THEN <<<<"Namespaces affected: ", sum.namespacesAffected>>>> ELSE <<>>)

\* outputHuman: the errors of fmt.Fprintln / fmt.Fprintf are dropped, nil is returned
outputHuman(fs_, sum, canWrite) ==
    [err |-> FALSE,
     written |-> IF canWrite THEN HumanLines(fs_, sum) ELSE <<>>]

\* outputJSON: encoder.Encode returns the writer's error
outputJSON(fs_, sum, canWrite) ==
    IF canWrite
    THEN [err |-> FALSE, written |-> <<<<"json", [summary |-> sum, findings |-> fs_]>>>>]
    ELSE [err |-> TRUE, written |-> <<>>]

Output(fmt, fs_, sum, canWrite) ==
    IF fmt = "json" THEN outputJSON(fs_, sum, canWrite)
    ELSE outputHuman(fs_, sum, canWrite)

-----------------------------------------------------------------------------
(* Inputs of a run of the command: the arguments and the file system       *)

PrivilegedPod == K8sResource("Pod", "api", "prod", EmptyMap, PrivilegedSpec, <<>>, <<>>)
NodePortService ==
    K8sResource("Service", "web", "dev", EmptyMap, [type |-> VStr("NodePort")], <<>>, <<>>)
ConfigMapOnly == K8sResource("ConfigMap", "settings", "dev", EmptyMap, EmptyMap, <<>>, <<>>)
CleanDeployment ==
    K8sResource("Deployment", "app", "dev", EmptyMap,
                [template |-> VMap([spec |-> VMap(CleanSpec)])], <<>>, <<>>)

FileContent(docs) == [readable |-> TRUE, docs |-> docs]
Unreadable == [readable |-> FALSE, docs |-> <<>>]

\* the contents a regular file given on the command line can have
FileContents ==
    { FileContent(<<DocResource(PrivilegedPod)>>),
      FileContent(<<DocResource(NodePortService)>>),
      FileContent(<<DocResource(ConfigMapOnly)>>),
      FileContent(<<DocEmpty>>),
      FileContent(<<DocEmpty, DocResource(CleanDeployment)>>),
      FileContent(<<DocResource(PrivilegedPod), DocMalformed>>),
      FileContent(<<DocMistyped>>),
      Unreadable }

DirEntry(name, isDir, walkErr, content) ==
    [name |-> name, isDir |-> isDir, walkErr |-> walkErr, content |-> content]

\* what a directory can hold, in the lexical order filepath.Walk visits it
EntryPool ==
    << DirEntry("d/a.yaml", FALSE, FALSE, FileContent(<<DocResource(PrivilegedPod)>>)),
       DirEntry("d/b.yaml", FALSE, FALSE,
                FileContent(<<DocResource(NodePortService), DocMalformed>>)),
       DirEntry("d/c.yml", FALSE, FALSE, FileContent(<<DocResource(NodePortService)>>)),
       DirEntry("d/locked", TRUE, TRUE, Unreadable),
       DirEntry("d/notes.txt", FALSE, FALSE, FileContent(<<DocResource(PrivilegedPod)>>)),
       DirEntry("d/sub.yaml", TRUE, FALSE, Unreadable),
       DirEntry("d/u.yaml", FALSE, FALSE, Unreadable) >>

\* the entries of EntryPool whose index is in S, in order
RECURSIVE EntriesFrom(_, _)
EntriesFrom(S, j) ==
    IF j > Len(EntryPool) THEN <<>>
    ELSE (IF j \in S THEN <<EntryPool[j]>> ELSE <<>>) \o EntriesFrom(S, j + 1)

Missing == [type |-> "missing"]
FileNode(content) == [type |-> "file", content |-> content]
DirNode(entries) == [type |-> "dir", entries |-> entries]

\* the most files and directory entries the paths of a run hold together
MaxFiles == 3

FileCount(node) ==
    IF node.type = "missing" THEN 0
    ELSE IF node.type = "file" THEN 1
    ELSE Len(node.entries)

Nodes(n) ==
    {Missing}
    \cup {FileNode(c) : c \in FileContents}
    \cup {DirNode(EntriesFrom(S, 1)) :
            S \in {T \in SUBSET (1..Len(EntryPool)) : Cardinality(T) <= n}}

PathNames == {"p", "q"}

\* the positional arguments: none, one path, two paths, the same path twice
ArgLists == {<<>>, <<"p">>, <<"p", "q">>, <<"p", "p">>}

\* the flags written before the paths
FlagLists == {<<>>, <<"--json">>, <<"--include-medium">>, <<"-json", "--include-medium">>}

\* what follows the subcommand when it is not flags followed by paths: a flag
\* after the first path, an undefined flag, a help flag, a flag with a value,
\* a flag with a value that is no boolean, the terminator, a malformed flag
OtherArgs ==
    {<<"p", "--json">>, <<"--verbose", "p">>, <<"-h">>, <<"--json=false", "p", "q">>,
     <<"--json=maybe", "p">>, <<"--", "p", "q">>, <<"---json", "p">>}

\* os.Args[1:]
CommandLines ==
    {<<>>, <<"--version">>, <<"-version", "p">>, <<"lint", "p">>}
    \cup {<<c>> \o fl \o ps : c \in {"scan", "diff"}, fl \in FlagLists, ps \in ArgLists}
    \cup {<<c>> \o x : c \in {"scan", "diff"}, x \in OtherArgs}

\* the names the run can look up: the path names, and the flag that is taken
\* as a path when it follows one (no file has that name)
FileNames == PathNames \cup {"--json"}

-----------------------------------------------------------------------------
(* cmd/k8s-danger-scan: the command line                                   *)

\* printUsage
UsageLines ==
    << <<"k8s-danger-scan - Detect catastrophic Kubernetes misconfigurations">>,
       <<"">>,
       <<"Usage:">>,
       <<"  k8s-danger-scan scan <path> [flags]        Scan manifest files or directory">>,
       <<"  k8s-danger-scan diff <old> <new> [flags]   Compare manifests and show new risks only">>,
       <<"  k8s-danger-scan --version                  Show version">>,
       <<"">>,
       <<"Flags:">>,
       <<"  --json              Output in JSON format">>,
       <<"  --include-medium    Include MEDIUM severity findings (default: HIGH only)">>,
       <<"">>,
       <<"Exit Codes:">>,
       <<"  0  No findings">>,
       <<"  1  Medium risk only">>,
       <<"  2  At least one high risk">>,
       <<"  3  Error occurred">>,
       <<"">>,
       <<"Examples:">>,
       <<"  k8s-danger-scan scan ./manifests">>,
       <<"  k8s-danger-scan scan deployment.yaml --include-medium">>,
       <<"  k8s-danger-scan diff old.yaml new.yaml">>,
       <<"  k8s-danger-scan scan . --json --include-medium">> >>

\* the usage the flag set of the subcommand prints: its two flags, by name
FlagSetUsage(cmd) ==
    << <<"Usage of " \o cmd \o ":">>,
       <<"  -include-medium">>,
       <<"    \tInclude medium severity findings">>,
       <<"  -json">>,
       <<"    \tOutput in JSON format">> >>

\* the value of a boolean flag written as -name=value
ParseBool(value) ==
    IF value \in {"1", "t", "T", "TRUE", "true", "True"} THEN [ok |-> TRUE, val |-> TRUE]
    ELSE IF value \in {"0", "f", "F", "FALSE", "false", "False"} THEN [ok |-> TRUE, val |-> FALSE]
    ELSE [ok |-> FALSE, val |-> FALSE]

\* what FlagSet.Parse leaves: status "ok", "help" or "error", the two flags,
\* the arguments that are not flags (FlagSet.Args) and the error message
Parsed(status, json, medium, rest, msg) ==
    [status |-> status, json |-> json, medium |-> medium, rest |-> rest, msg |-> msg]

\* FlagSet.Parse on the flag set of scan or diff, from argument i on: flags
\* are read up to the first argument that is no flag, or to "--"
RECURSIVE ParseFlagsFrom(_, _, _, _)
ParseFlagsFrom(args, i, json, medium) ==
    IF i > Len(args) THEN Parsed("ok", json, medium, <<>>, "")
    ELSE LET s == args[i]
         IN  IF Len(s) < 2 \/ SubSeq(s, 1, 1) # "-"
             THEN Parsed("ok", json, medium, SubSeq(args, i, Len(args)), "")
             ELSE IF s = "--"
             THEN Parsed("ok", json, medium, SubSeq(args, i + 1, Len(args)), "")
             ELSE LET numMinuses == IF SubSeq(s, 2, 2) = "-" THEN 2 ELSE 1
                      full == SubSeq(s, numMinuses + 1, Len(s))
                      eqs == {k \in 2..Len(full) : SubSeq(full, k, k) = "="}
                      hasValue == eqs # {}
                      eq == IF hasValue THEN CHOOSE k \in eqs : \A j \in eqs : k <= j
                            ELSE Len(full) + 1
                      name == SubSeq(full, 1, eq - 1)
                      value == SubSeq(full, eq + 1, Len(full))
                  IN  IF Len(full) = 0 \/ SubSeq(full, 1, 1) = "-" \/ SubSeq(full, 1, 1) = "="
                      THEN Parsed("error", json, medium, <<>>, "bad flag syntax: " \o s)
                      ELSE IF name \notin {"json", "include-medium"}
                      THEN IF name = "help" \/ name = "h"
                           THEN Parsed("help", json, medium, <<>>, "")
                           ELSE Parsed("error", json, medium, <<>>,
                                       "flag provided but not defined: -" \o name)
                      ELSE IF hasValue /\ ~ParseBool(value).ok
                      THEN Parsed("error", json, medium, <<>>,
                                  "invalid boolean value \"" \o value \o "\" for -"
                                  \o name \o ": parse error")
                      ELSE LET val == IF hasValue THEN ParseBool(value).val ELSE TRUE
                           IN  IF name = "json"
                               THEN ParseFlagsFrom(args, i + 1, val, medium)
                               ELSE ParseFlagsFrom(args, i + 1, json, val)

-----------------------------------------------------------------------------
(* cmd/k8s-danger-scan: main                                               *)

InitMain ==
    /\ command = ""
    /\ includeMedium = FALSE
    /\ format = "human"
    /\ paths \in CommandLines
    /\ fs \in {[n \in FileNames |-> IF n \in PathNames THEN g[n] ELSE Missing] :
                g \in [PathNames -> Nodes(MaxFiles)]}
    /\ \A n \in PathNames :
          (\A i \in 1..Len(paths) : paths[i] # n) => fs[n] = Missing
    /\ FileCount(fs["p"]) + FileCount(fs["q"]) <= MaxFiles
    /\ writerOK \in BOOLEAN
    /\ pc = "start"
    /\ oldResources = <<>>
    /\ resources = <<>>
    /\ findings = <<>>
    /\ summary = NoSummary
    /\ stdout = <<>>
    /\ stderr = <<>>
    /\ evaluated = 0
    /\ err = ""
    /\ exitCode = NoExit

\* main, lines 42-107: the usage without argument, the version, the flags and
\* the paths of the subcommand, and the options of the scanner. A failure of
\* FlagSet.Parse ends the process inside Parse (flag.ExitOnError): code 0
\* after a help flag, code 2 after any other error.
ParseArgs ==
    /\ pc = "start"
    /\ IF Len(paths) < 1
       THEN /\ stderr' = stderr \o UsageLines
            /\ exitCode' = ExitError
            /\ pc' = "exited"
            /\ UNCHANGED <<command, includeMedium, format, paths, stdout>>
       ELSE IF paths[1] = "--version" \/ paths[1] = "-version"
       THEN /\ stdout' = IF writerOK
                         THEN Append(stdout, <<"k8s-danger-scan version 1.0.0">>)
                         ELSE stdout
            /\ exitCode' = 0
            /\ pc' = "exited"
            /\ UNCHANGED <<command, includeMedium, format, paths, stderr>>
       ELSE IF paths[1] # "scan" /\ paths[1] # "diff"
       THEN /\ command' = paths[1]
            /\ stderr' = Append(stderr, <<"Error: unknown command '" \o paths[1] \o "'">>)
                            \o UsageLines
            /\ exitCode' = ExitError
            /\ pc' = "exited"
            /\ UNCHANGED <<includeMedium, format, paths, stdout>>
       ELSE LET parsed == ParseFlagsFrom(Tail(paths), 1, FALSE, FALSE)
                needed == IF paths[1] = "scan" THEN 1 ELSE 2
            IN  /\ command' = paths[1]
                /\ UNCHANGED stdout
                /\ IF parsed.status = "help"
                   THEN /\ stderr' = stderr \o FlagSetUsage(paths[1])
                        /\ exitCode' = 0
                        /\ pc' = "exited"
                        /\ UNCHANGED <<includeMedium, format, paths>>
                   ELSE IF parsed.status = "error"
                   THEN /\ stderr' = Append(stderr, <<parsed.msg>>) \o FlagSetUsage(paths[1])
                        /\ exitCode' = 2
                        /\ pc' = "exited"
                        /\ UNCHANGED <<includeMedium, format, paths>>
                   ELSE /\ includeMedium' = parsed.medium
                        /\ format' = IF parsed.json THEN "json" ELSE "human"
                        /\ paths' = parsed.rest
                        /\ IF Len(parsed.rest) < needed
                           THEN /\ stderr' = stderr \o
                                    (IF paths[1] = "scan"
                                     THEN << <<"Error: scan requires a path argument">>,
                                             <<"Usage: k8s-danger-scan scan <path> [--json] [--include-medium]">> >>
                                     ELSE << <<"Error: diff requires two path arguments">>,
                                             <<"Usage: k8s-danger-scan diff <old> <new> [--json] [--include-medium]">> >>)
                                /\ exitCode' = ExitError
                                /\ pc' = "exited"
                           ELSE /\ pc' = "run"
                                /\ UNCHANGED <<stderr, exitCode>>
    /\ UNCHANGED <<fs, writerOK, oldResources, resources, findings, summary,
                   evaluated, err>>

\* runScan: ParseFiles(paths...), the empty check, s.Scan(resources)
RunScan ==
    /\ pc = "run"
    /\ command = "scan"
    /\ LET loaded == ParseFiles(paths, fs)
       IN  /\ stderr' = stderr \o loaded.warnings
           /\ resources' = loaded.resources
           /\ IF loaded.err
              THEN /\ err' = "failed to parse files"
                   /\ UNCHANGED <<findings, evaluated>>
              ELSE IF Len(loaded.resources) = 0
              THEN /\ err' = "no Kubernetes resources found in specified paths"
                   /\ UNCHANGED <<findings, evaluated>>
              ELSE /\ err' = ""
                   /\ findings' = Scan(loaded.resources, includeMedium)
                   /\ evaluated' = evaluated + RuleCalls(loaded.resources)
    /\ pc' = "ran"
    /\ UNCHANGED <<command, includeMedium, format, paths, fs, writerOK, oldResources,
                   summary, stdout, exitCode>>

\* runDiff: ParseFiles(oldPath), ParseFiles(newPath), s.Diff(old, new)
RunDiff ==
    /\ pc = "run"
    /\ command = "diff"
    /\ LET loadedOld == ParseFiles(<<paths[1]>>, fs)
           loadedNew == ParseFiles(<<paths[2]>>, fs)
       IN  /\ oldResources' = loadedOld.resources
           /\ IF loadedOld.err
              THEN /\ stderr' = stderr \o loadedOld.warnings
                   /\ err' = "failed to parse old manifest"
                   /\ UNCHANGED <<resources, findings, evaluated>>
              ELSE /\ stderr' = stderr \o loadedOld.warnings \o loadedNew.warnings
                   /\ resources' = loadedNew.resources
                   /\ IF loadedNew.err
                      THEN /\ err' = "failed to parse new manifest"
                           /\ UNCHANGED <<findings, evaluated>>
                      ELSE /\ err' = ""
                           /\ findings' = Diff(loadedOld.resources, loadedNew.resources,
                                               includeMedium)
                           /\ evaluated' = evaluated + RuleCalls(loadedOld.resources)
                                                     + RuleCalls(loadedNew.resources)
    /\ pc' = "ran"
    /\ UNCHANGED <<command, includeMedium, format, paths, fs, writerOK,
                   summary, stdout, exitCode>>

\* main, lines 127-130: the run's error ends the process
ExitOnError ==
    /\ pc = "ran"
    /\ err # ""
    /\ stderr' = Append(stderr, <<"Error: " \o err>>)
    /\ exitCode' = ExitError
    /\ pc' = "exited"
    /\ UNCHANGED <<command, includeMedium, format, paths, fs, writerOK, oldResources,
                   resources, findings, summary, stdout, evaluated, err>>

\* main, line 133
Summarise ==
    /\ pc = "ran"
    /\ err = ""
    /\ summary' = GetSummary(findings)
    /\ pc' = "summarised"
    /\ UNCHANGED <<command, includeMedium, format, paths, fs, writerOK, oldResources,
                   resources, findings, stdout, stderr, evaluated, err, exitCode>>

\* main, lines 136-140: formatter.Output, whose error ends the process
WriteOutput ==
    /\ pc = "summarised"
    /\ LET out == Output(format, findings, summary, writerOK)
       IN  /\ stdout' = stdout \o out.written
           /\ IF out.err
              THEN /\ err' = "formatting output"
                   /\ stderr' = Append(stderr, <<"Error formatting output">>)
                   /\ exitCode' = ExitError
                   /\ pc' = "exited"
              ELSE /\ pc' = "written"
                   /\ UNCHANGED <<err, stderr, exitCode>>
    /\ UNCHANGED <<command, includeMedium, format, paths, fs, writerOK, oldResources,
                   resources, findings, summary, evaluated>>

\* main, lines 143-144
ExitWithCode ==
    /\ pc = "written"
    /\ exitCode' = GetExitCode(findings)
    /\ pc' = "exited"
    /\ UNCHANGED <<command, includeMedium, format, paths, fs, writerOK, oldResources,
                   resources, findings, summary, stdout, stderr, evaluated, err>>

NextMain ==
    ParseArgs \/ RunScan \/ RunDiff \/ ExitOnError \/ Summarise \/ WriteOutput
    \/ ExitWithCode

SpecMain == InitMain /\ [][NextMain]_vars

-----------------------------------------------------------------------------
(* Properties of a run of the command (specification SpecMain) *)

ArgsOK == ~((command = "scan" /\ Len(paths) < 1) \/ (command = "diff" /\ Len(paths) < 2))

\* the run function (runScan or runDiff) has returned: the process is past
\* it, or it has exited on the error or on the result of the run
Ran ==
    /\ ArgsOK
    /\ \/ pc \in {"ran", "summarised", "written"}
       \/ pc = "exited" /\ (err # "" \/ summary # NoSummary)

ParseErrors ==
    {"failed to parse files", "failed to parse old manifest", "failed to parse new manifest"}

\* C7: a run whose loading succeeds and finds no resource of a supported
\* kind in any input ends with exit code 3, never as a clean run with exit
\* code 0 (stated for the runs whose output stream is writable).
C7_NoSupportedResourceIsError ==
    (/\ Ran
     /\ pc = "exited"
     /\ writerOK
     /\ err \notin ParseErrors
     /\ \A r \in Range(oldResources) \cup Range(resources) : ~IsSupportedKind(r.kind)) =>
        exitCode = ExitError

\* a walked file the walk function parses, and one it fails to parse
GoodEntry(e) == ~e.walkErr /\ ~e.isDir /\ IsYAMLName(e.name) /\ ~parseFile(e.content).err
BadEntry(e) == ~e.walkErr /\ ~e.isDir /\ IsYAMLName(e.name) /\ parseFile(e.content).err

\* an explicit path that is missing, or a file that fails to read or decode
FatalPath(p) ==
    \/ fs[p].type = "missing"
    \/ fs[p].type = "file" /\ parseFile(fs[p].content).err

\* a directory the walk of which is cut short by a walk error
WalkErrorPath(p) ==
    fs[p].type = "dir" /\ \E j \in 1..Len(fs[p].entries) : fs[p].entries[j].walkErr

RECURSIVE Concat(_)
Concat(ss) == IF ss = <<>> THEN <<>> ELSE Head(ss) \o Concat(Tail(ss))

\* what a path contributes when nothing fatal happens: the resources of the
\* file, or of the entries of the directory that parse
Contribution(p) ==
    IF fs[p].type = "file" THEN parseFile(fs[p].content).resources
    ELSE IF fs[p].type = "dir"
    THEN Concat([j \in 1..Len(fs[p].entries) |->
                    IF GoodEntry(fs[p].entries[j])
                    THEN parseFile(fs[p].entries[j].content).resources
                    ELSE <<>>])
    ELSE <<>>

\* the warnings a path gives: one for each walked file that fails to parse
Warnings(p) ==
    IF fs[p].type = "dir"
    THEN Concat([j \in 1..Len(fs[p].entries) |->
                    IF BadEntry(fs[p].entries[j])
                    THEN <<<<"Warning: failed to parse", fs[p].entries[j].name>>>>
                    ELSE <<>>])
    ELSE <<>>

\* the paths the run reads: all of them for scan, the first two for diff
UsedPaths == IF command = "scan" THEN paths ELSE SubSeq(paths, 1, 2)

\* C8: an explicit file that fails to read or decode fails the whole
\* ParseFiles call; a walked file that fails is logged and contributes
\* nothing, and the walk goes on: the call returns the resources of all the
\* other files, in order.
C8_ExplicitFatalWalkedSkipped ==
    Ran =>
        /\ (\E i \in 1..Len(UsedPaths) : FatalPath(UsedPaths[i])) => err \in ParseErrors
        /\ (\A i \in 1..Len(UsedPaths) :
                ~FatalPath(UsedPaths[i]) /\ ~WalkErrorPath(UsedPaths[i])) =>
                /\ err \notin ParseErrors
                /\ IF command = "scan"
                   THEN resources = Concat([i \in 1..Len(paths) |-> Contribution(paths[i])])
                   ELSE /\ oldResources = Contribution(paths[1])
                        /\ resources = Contribution(paths[2])
                /\ SubSeq(stderr, 1, Len(Concat([i \in 1..Len(UsedPaths) |->
                                                    Warnings(UsedPaths[i])])))
                     = Concat([i \in 1..Len(UsedPaths) |-> Warnings(UsedPaths[i])])

C8_Witness ==
    /\ Ran
    /\ command = "scan"
    /\ pc = "exited"
    /\ fs[paths[1]].type = "dir"
    /\ \E j, k \in 1..Len(fs[paths[1]].entries) :
          /\ j < k
          /\ BadEntry(fs[paths[1]].entries[j])
          /\ GoodEntry(fs[paths[1]].entries[k])
    /\ err = ""
    /\ resources # <<>>
    /\ stderr # <<>>
    /\ exitCode \in {ExitOK, ExitMedium, ExitHigh}

\* C9: when an explicit path is missing or is a file that fails to read or
\* decode, the failing ParseFiles call returns no resource, no rule is
\* evaluated, nothing is written to standard output, no summary is made,
\* and the process exits with code 3.
C9_FatalInputAborts ==
    (Ran /\ \E i \in 1..Len(UsedPaths) : FatalPath(UsedPaths[i])) =>
        /\ err \in ParseErrors
        /\ resources = <<>>
        /\ (command = "diff" /\ FatalPath(paths[1])) => oldResources = <<>>
        /\ evaluated = 0
        /\ findings = <<>>
        /\ summary = NoSummary
        /\ stdout = <<>>
        /\ pc \in {"ran", "exited"}
        /\ pc = "exited" => exitCode = ExitError

C9_Witness ==
    /\ Ran
    /\ pc = "exited"
    /\ command = "scan"
    /\ Len(paths) = 2
    /\ fs[paths[1]].type = "file"
    /\ ~parseFile(fs[paths[1]].content).err
    /\ parseFile(fs[paths[1]].content).resources # <<>>
    /\ fs[paths[2]].type = "missing"
    /\ resources = <<>>
    /\ exitCode = ExitError

\* C10: when the writes to the output stream fail, in either format, the
\* process exits with code 3.
C10_WriteFailureIsError ==
    (pc = "exited" /\ summary # NoSummary /\ ~writerOK) => exitCode = ExitError

-----------------------------------------------------------------------------
(* Order of the findings of Scan (specification Spec) *)

\* the (resource index, rule index) pairs whose rule call contributes to
\* Scan(rs): supported kind, a finding returned, severity kept
Contributing(rs, inclMedium) ==
    {p \in (1..Len(rs)) \X (1..NumRules) :
        /\ rs[p[1]].kind \in SupportedKinds
        /\ ApplyRule(p[2], rs[p[1]]) # <<>>
        /\ (inclMedium \/ ApplyRule(p[2], rs[p[1]])[1].severity = High)}

\* p comes before q: earlier resource, or same resource and earlier rule
Before(p, q) == p[1] < q[1] \/ (p[1] = q[1] /\ p[2] < q[2])

\* the rule IDs in the order of AllRules
RuleOrder ==
    <<"privileged-container", "hostpath-volume", "docker-socket-mount",
      "runs-as-root", "privilege-escalation-allowed", "wildcard-rbac",
      "clusterrolebinding-default-sa", "public-loadbalancer",
      "nodeport-service", "latest-image-tag", "host-network", "host-pid-ipc">>

\* C11: the findings of Scan are ordered by resource input order and, within
\* one resource, by the order of the 12 rules of AllRules; a resource of an
\* unsupported kind contributes nothing, so every finding has a supported kind.
C11_ScanOrder ==
    pc = "scanned" =>
        LET P == Contributing(resources, includeMedium)
        IN  /\ Len(findings) = Cardinality(P)
            /\ \A p \in P :
                    LET k == Cardinality({q \in P : Before(q, p)}) + 1
                    IN  /\ findings[k] = ApplyRule(p[2], resources[p[1]])[1]
                        /\ findings[k].ruleID = RuleOrder[p[2]]
            /\ \A k \in 1..Len(findings) : findings[k].kind \in SupportedKinds

C11_Witness ==
    /\ pc = "scanned"
    /\ includeMedium
    /\ Len(resources) = 3
    /\ resources[1].kind = "Service"
    /\ resources[2].kind = "ConfigMap"
    /\ resources[3].kind = "Pod"
    /\ Len(findings) = 5
    /\ findings[1].ruleID = "nodeport-service"
    /\ findings[2].ruleID = "privileged-container"
    /\ findings[3].ruleID = "runs-as-root"
    /\ findings[4].ruleID = "latest-image-tag"
    /\ findings[5].ruleID = "host-network"

\* C12: Scan of any permutation of a resource list yields the same set of
\* findings as Scan of the list.
C12_ScanPermutation ==
    pc = "scanned" =>
        \A p \in Permutations(1..Len(resources)) :
            Range(Scan([i \in 1..Len(resources) |-> resources[p[i]]], includeMedium))
                = Range(findings)

C12_Witness ==
    /\ pc = "scanned"
    /\ Len(resources) = 3
    /\ Cardinality(Range(findings)) >= 3
    /\ Scan(<<resources[3], resources[1], resources[2]>>, includeMedium) # findings
    /\ Range(Scan(<<resources[3], resources[1], resources[2]>>, includeMedium))
            = Range(findings)

-----------------------------------------------------------------------------
(* Inputs of the rules: resources generated from their parts *)

\* the longest list of containers, volumes, RBAC rule entries or subjects
MaxElems == 2

\* the sequences of 1..n elements of S
SeqsUpTo(S, n) == UNION {[1..k -> S] : k \in 1..n}

\* a map without the keys whose value is absent
Compact(m) == [k \in {x \in DOMAIN m : m[x].t # "nil"} |-> m[k]]

\* securityContext.runAsNonRoot and securityContext.runAsUser as written
RunAsNonRootValues == {Nil, VBool(TRUE), VBool(FALSE)}
RunAsUserValues == {Nil, VInt(0), VInt(1000), VInt(UnsetUser)}

\* a securityContext: absent, or a map with any of the two fields
SecurityContexts ==
    {Nil} \cup {VMap(Compact([runAsNonRoot |-> nr, runAsUser |-> u])) :
                    nr \in RunAsNonRootValues, u \in RunAsUserValues}

\* pod specs of one container: every pod-level and container-level context
UserSpecs ==
    {Compact([securityContext |-> podSC,
              containers |-> VList(<<VMap(Compact(
                    [image |-> VStr("nginx:1.25"), securityContext |-> sc]))>>)]) :
        podSC \in SecurityContexts, sc \in SecurityContexts}

\* privileged-container, runs-as-root, privilege-escalation-allowed, latest-image-tag
RiskyContainer ==
    VMap([image |-> VStr("nginx"),
          securityContext |-> VMap([privileged |-> VBool(TRUE),
                                    allowPrivilegeEscalation |-> VBool(TRUE)])])

\* latest-image-tag only
LatestContainer ==
    VMap([image |-> VStr("nginx:latest"),
          securityContext |-> VMap([runAsNonRoot |-> VBool(TRUE)])])

SafeContainer ==
    VMap([image |-> VStr("nginx:1.25"),
          securityContext |-> VMap([runAsNonRoot |-> VBool(TRUE),
                                    privileged |-> VBool(FALSE)])])

ContainerPool == {RiskyContainer, LatestContainer, SafeContainer}

VolumePool ==
    {VMap([name |-> VStr("data"), hostPath |-> VMap([path |-> VStr("/data")])]),
     VMap([name |-> VStr("sock"),
           hostPath |-> VMap([path |-> VStr("/var/run/docker.sock")])]),
     VMap([name |-> VStr("tmp"), emptyDir |-> VMap(EmptyMap)])}

\* pod specs of several containers
ContainerSpecs ==
    {[containers |-> VList(cs)] : cs \in SeqsUpTo(ContainerPool, MaxElems)}

\* pod specs of one safe container and several volumes
VolumeSpecs ==
    {[containers |-> VList(<<SafeContainer>>), volumes |-> VList(vs)] :
        vs \in SeqsUpTo(VolumePool, MaxElems)}

\* pod specs of one safe container sharing host namespaces
HostSpecs ==
    {Compact([containers |-> VList(<<SafeContainer>>),
              hostNetwork |-> n, hostPID |-> p, hostIPC |-> i]) :
        n \in {Nil, VBool(TRUE)}, p \in {Nil, VBool(TRUE)},
        i \in {Nil, VBool(TRUE), VBool(FALSE)}}

PodSpecs == ContainerSpecs \cup VolumeSpecs \cup HostSpecs

\* where a manifest of the kind carries the pod spec ps
AtRoot(ps) == ps
AtTemplate(ps) == [replicas |-> VInt(1), template |-> VMap([spec |-> VMap(ps)])]
AtJobTemplate(ps) ==
    [schedule |-> VStr("* * * * *"),
     jobTemplate |-> VMap([spec |-> VMap([template |-> VMap([spec |-> VMap(ps)])])])]

\* a resource named web in namespace prod
Named(kind, spec) == K8sResource(kind, "web", "prod", EmptyMap, spec, <<>>, <<>>)

Workloads ==
    {Named("Pod", AtRoot(ps)) : ps \in PodSpecs \cup UserSpecs}
    \cup {Named(kind, AtTemplate(ps)) :
            kind \in {"Deployment", "Job", "Service", "ConfigMap"}, ps \in PodSpecs}
    \cup {Named(kind, AtRoot(ps)) : kind \in {"Deployment"}, ps \in HostSpecs}
    \cup {Named(kind, AtJobTemplate(ps)) :
            kind \in {"CronJob", "Role"}, ps \in ContainerSpecs \cup HostSpecs}
    \cup {Named(kind, AtTemplate(ps)) : kind \in {"CronJob"}, ps \in HostSpecs}
    \cup {Named(kind, AtJobTemplate(ps)) : kind \in {"Deployment"}, ps \in HostSpecs}

\* Rule entries of a Role or ClusterRole
RuleEntries ==
    {[verbs |-> <<"*">>, resources |-> <<"*">>],
     [verbs |-> <<"*">>, resources |-> <<"pods">>],
     [verbs |-> <<"get">>, resources |-> <<"*">>],
     [verbs |-> <<"get", "*">>, resources |-> <<"pods", "secrets", "*">>]}

Roles ==
    {K8sResource(kind, "admin", ns, EmptyMap, EmptyMap, rules, <<>>) :
        kind \in {"Role", "ClusterRole", "RoleBinding"},
        ns \in {""},
        rules \in {<<>>} \cup SeqsUpTo(RuleEntries, MaxElems)}

\* Subjects of a RoleBinding or ClusterRoleBinding
SubjectPool ==
    {[kind |-> "ServiceAccount", name |-> "default"],
     [kind |-> "ServiceAccount", name |-> "builder"],
     [kind |-> "User", name |-> "default"]}

Bindings ==
    {K8sResource(kind, "bind", "", EmptyMap, EmptyMap, <<>>, subjects) :
        kind \in {"RoleBinding", "ClusterRoleBinding", "ClusterRole"},
        subjects \in {<<>>} \cup SeqsUpTo(SubjectPool, MaxElems)}

\* metadata.annotations
AnnotationMaps ==
    {EmptyMap,
     [x \in {"danger-scan/nodeport-justified"} |-> "true"],
     [x \in {"danger-scan/nodeport-justified"} |-> ""],
     [x \in {"danger-scan/justified"} |-> "true"]}

Services ==
    {K8sResource(kind, "web", ns, annotations, Compact([type |-> type]), <<>>, <<>>) :
        kind \in {"Service", "Job"},
        ns \in {"prod", "kube-system", "dev"},
        annotations \in AnnotationMaps,
        type \in {Nil, VStr("NodePort"), VStr("LoadBalancer"), VStr("ClusterIP"),
                  VStr("nodeport")}}

\* manifests without metadata.name, and without metadata at all
Unnamed ==
    {K8sResource("Pod", "", ns, EmptyMap, [containers |-> VList(<<RiskyContainer>>)],
                 <<>>, <<>>) : ns \in {"", "prod"}}

RulePool == Workloads \cup Roles \cup Bindings \cup Services \cup Unnamed

\* the old side of a diff: the pod web in prod before it was changed
OldPool ==
    {Named("Pod", Compact([containers |-> VList(<<SafeContainer>>),
                           hostPID |-> VBool(TRUE)])),
     K8sResource("Service", "web", "prod", EmptyMap,
                 [type |-> VStr("LoadBalancer")], <<>>, <<>>)}

-----------------------------------------------------------------------------
(* The rules called directly: one rule of AllRules on one resource, or the  *)
(* scanner on a short list.                                                 *)

InitRules ==
    /\ command = "lib"
    /\ includeMedium \in BOOLEAN
    /\ format = "human"
    /\ paths = <<>>
    /\ fs = <<>>
    /\ writerOK = TRUE
    /\ pc = "ready"
    /\ oldResources \in {<<>>} \cup {<<r>> : r \in OldPool}
    /\ resources \in {<<r>> : r \in RulePool} \cup (ResLists(MaxRes - 1) \ {<<>>})
    /\ findings = <<>>
    /\ summary = NoSummary
    /\ stdout = <<>>
    /\ stderr = <<>>
    /\ evaluated = 0
    /\ err = ""
    /\ exitCode = NoExit

\* AllRules()[i](resources[0]): pc names the rule that returned
CallRule ==
    /\ pc = "ready"
    /\ \E i \in 1..NumRules :
        /\ findings' = ApplyRule(i, resources[1])
        /\ pc' = RuleOrder[i]
    /\ evaluated' = evaluated + 1
    /\ UNCHANGED <<command, includeMedium, format, paths, fs, writerOK,
                   oldResources, resources, summary, stdout, stderr, err, exitCode>>

NextRules == CallRule \/ CallScan \/ CallDiff \/ CallGetSummary \/ CallGetExitCode

SpecRules == InitRules /\ [][NextRules]_vars

-----------------------------------------------------------------------------
(* Properties of the rules (specification SpecRules) *)

\* the kinds that carry a pod spec
WorkloadKinds == {"Pod", "Deployment", "StatefulSet", "DaemonSet", "Job", "CronJob"}

\* the rules that read the pod spec
PodSpecRules ==
    {"privileged-container", "hostpath-volume", "docker-socket-mount",
     "runs-as-root", "privilege-escalation-allowed", "latest-image-tag",
     "host-network", "host-pid-ipc"}

\* C13: for a resource whose kind is none of Pod, Deployment, StatefulSet,
\* DaemonSet, Job, CronJob, GetPodSpec reports no pod spec whatever the spec
\* tree holds, and none of the eight pod-spec-based rules returns a finding.
C13_NoPodSpecForOtherKinds ==
    (pc \in PodSpecRules /\ resources[1].kind \notin WorkloadKinds) =>
        /\ ~GetPodSpec(resources[1]).ok
        /\ findings = <<>>

\* the one container of the pod resources[1], and the value written for the
\* field k in its securityContext and in the pod-level securityContext
TheContainer == resources[1].spec.containers.v[1]
ContainerField(k) ==
    IF ContainerSC(TheContainer).t = "map"
    THEN Field(ContainerSC(TheContainer).v, k) ELSE Nil
PodField(k) ==
    IF Field(resources[1].spec, "securityContext").t = "map"
    THEN Field(Field(resources[1].spec, "securityContext").v, k) ELSE Nil

\* the container's value when it is set, the pod's otherwise
Effective(k) == IF ContainerField(k).t # "nil" THEN ContainerField(k) ELSE PodField(k)

IsSetTrue(val) == val.t = "bool" /\ val.v
IsNegative(val) == val.t = "int" /\ val.v < 0
ZeroOrUnset(val) == val.t = "nil" \/ (val.t = "int" /\ val.v = 0)

\* runs-as-root has returned for a pod of one container
RootRuleOnOneContainer ==
    /\ pc = "runs-as-root"
    /\ resources[1].kind = "Pod"
    /\ Field(resources[1].spec, "containers").t = "list"
    /\ Len(resources[1].spec.containers.v) = 1

\* C14: a container without securityContext takes the pod-level runAsNonRoot
\* and runAsUser: it triggers runs-as-root exactly when the pod-level
\* runAsNonRoot is not true and the pod-level runAsUser is 0 or unset
\* (stated for the pod-level user IDs that are not negative).
C14_NoContextInheritsPodLevel ==
    (/\ RootRuleOnOneContainer
     /\ ContainerSC(TheContainer).t # "map"
     /\ ~IsNegative(PodField("runAsUser"))) =>
        (findings # <<>> <=>
            (~IsSetTrue(PodField("runAsNonRoot")) /\ ZeroOrUnset(PodField("runAsUser"))))

\* C15: for a container with a securityContext, each of runAsNonRoot and
\* runAsUser is the container's value when set there and the pod-level value
\* otherwise; the container triggers runs-as-root exactly when the effective
\* runAsNonRoot is false or absent and the effective runAsUser is 0 or unset.
C15_ContextFieldByField ==
    (RootRuleOnOneContainer /\ ContainerSC(TheContainer).t = "map") =>
        (findings # <<>> <=>
            (~IsSetTrue(Effective("runAsNonRoot")) /\ ZeroOrUnset(Effective("runAsUser"))))

RuleIDs == Range(RuleOrder)

\* C16: a rule returns at most one finding for a resource, however many of
\* its containers, volumes, rule entries or subjects violate it; so the
\* findings of one resource have distinct ruleIDs, a rule is reported at most
\* once per resource, and Scan of n resources yields at most 12*n findings.
C16_OneFindingPerRule ==
    /\ pc \in RuleIDs =>
        /\ Len(findings) <= 1
        /\ \A k \in 1..Len(findings) : findings[k].ruleID = pc
    /\ pc = "scanned" =>
        /\ Len(findings) <= NumRules * Len(resources)
        /\ \A id \in RuleIDs :
              Cardinality({k \in 1..Len(findings) : findings[k].ruleID = id})
                  <= Len(resources)
        /\ Len(resources) = 1 =>
              \A j, k \in 1..Len(findings) :
                  findings[j].ruleID = findings[k].ruleID => j = k

C16_Witness ==
    /\ pc = "privileged-container"
    /\ resources[1].kind = "Deployment"
    /\ GetPodSpec(resources[1]).ok
    /\ Containers(GetPodSpec(resources[1])) = <<RiskyContainer, RiskyContainer>>
    /\ Len(findings) = 1

\* C17: wildcard-rbac fires on a Role or ClusterRole exactly when one rule
\* entry has "*" among its verbs and "*" among its resources; wildcards spread
\* over two entries, or verbs ["*"] with resources ["pods"], give no finding,
\* and no resource of another kind gets the finding.
C17_WildcardBothInOneEntry ==
    /\ pc = "wildcard-rbac" =>
        LET r == resources[1]
            both == \E e \in Range(r.rules) :
                        "*" \in Range(e.verbs) /\ "*" \in Range(e.resources)
        IN  /\ findings # <<>> <=> (r.kind \in {"Role", "ClusterRole"} /\ both)
            /\ findings # <<>> =>
                  /\ Len(findings) = 1
                  /\ findings[1].ruleID = "wildcard-rbac"
                  /\ findings[1].severity = High
    /\ pc = "scanned" =>
        \A f \in Range(findings) :
            f.ruleID = "wildcard-rbac" => f.kind \in {"Role", "ClusterRole"}

C17_Witness ==
    /\ pc = "wildcard-rbac"
    /\ resources[1].kind = "ClusterRole"
    /\ resources[1].rules = <<[verbs |-> <<"*">>, resources |-> <<"pods">>],
                              [verbs |-> <<"get">>, resources |-> <<"*">>]>>
    /\ findings = <<>>

\* a Service whose spec is nothing but type: NodePort
NodePortOnly(r) ==
    /\ r.kind = "Service"
    /\ DOMAIN r.spec = {"type"}
    /\ r.spec.type.t = "str"
    /\ r.spec.type.v = "NodePort"

Justified(r) == "danger-scan/nodeport-justified" \in DOMAIN r.annotations

\* C18: nodeport-service fires on a Service exactly when spec.type is
\* "NodePort" and the annotation danger-scan/nodeport-justified is absent,
\* whatever value the annotation has when present; the rule is MEDIUM, so a
\* scan of NodePort services alone reports nothing without include-medium and
\* one nodeport-service finding per unjustified service with it.
C18_NodePortUnlessJustified ==
    /\ pc = "nodeport-service" =>
        LET r == resources[1]
        IN  /\ findings # <<>> <=>
                  /\ r.kind = "Service"
                  /\ Field(r.spec, "type").t = "str"
                  /\ Field(r.spec, "type").v = "NodePort"
                  /\ ~Justified(r)
            /\ findings # <<>> =>
                  /\ Len(findings) = 1
                  /\ findings[1].ruleID = "nodeport-service"
                  /\ findings[1].severity = Medium
    /\ (pc = "scanned" /\ \A i \in 1..Len(resources) : NodePortOnly(resources[i])) =>
        /\ ~includeMedium => findings = <<>>
        /\ includeMedium =>
              /\ Len(findings)
                    = Cardinality({i \in 1..Len(resources) : ~Justified(resources[i])})
              /\ \A f \in Range(findings) : f.ruleID = "nodeport-service"

C18_Witness ==
    /\ pc = "nodeport-service"
    /\ NodePortOnly(resources[1])
    /\ Justified(resources[1])
    /\ resources[1].annotations["danger-scan/nodeport-justified"] = ""
    /\ findings = <<>>

\* C19: every finding returned by Scan or Diff has a non-empty ruleID,
\* severity, kind, name, reason, impact and fix.
C19_FindingFieldsNonEmpty ==
    pc \in {"scanned", "diffed"} =>
        \A f \in Range(findings) :
            /\ f.ruleID # ""
            /\ f.severity # ""
            /\ f.kind # ""
            /\ f.name # ""
            /\ f.reason # ""
            /\ f.impact # ""
            /\ f.fix # ""

\* C20: two findings with the same ruleID carry the same severity, reason,
\* impact and fix, so a finding that Diff leaves out because its identity
\* tuple is an old one is equal to an old finding in every field.
C20_TextStaticPerRule ==
    pc = "diffed" =>
        LET old == Range(Scan(oldResources, includeMedium))
            new == Range(Scan(resources, includeMedium))
        IN  /\ \A f \in old, g \in new :
                  f.ruleID = g.ruleID =>
                      /\ f.severity = g.severity
                      /\ f.reason = g.reason
                      /\ f.impact = g.impact
                      /\ f.fix = g.fix
            /\ \A g \in new \ Range(findings) : g \in old

\* C21: host-pid-ipc returns exactly one finding when hostPID or hostIPC is
\* true in the pod spec GetPodSpec returns, and none otherwise; when both are
\* true the one finding is the hostPID one, and the hostIPC reason appears
\* only when hostPID is not true.
C21_HostPIDBeforeIPC ==
    pc = "host-pid-ipc" =>
        LET ps == GetPodSpec(resources[1])
            pid == ps.ok /\ IsSetTrue(Field(ps.spec, "hostPID"))
            ipc == ps.ok /\ IsSetTrue(Field(ps.spec, "hostIPC"))
        IN  /\ Len(findings) = (IF pid \/ ipc THEN 1 ELSE 0)
            /\ pid => findings[1].reason = "Uses host PID namespace"
            /\ (~pid /\ ipc) => findings[1].reason = "Uses host IPC namespace"
            /\ \A f \in Range(findings) :
                  /\ f.ruleID = "host-pid-ipc"
                  /\ f.severity = High
                  /\ f.reason = "Uses host IPC namespace" => ~pid

C21_Witness ==
    /\ pc = "host-pid-ipc"
    /\ resources[1].kind = "Pod"
    /\ IsSetTrue(Field(resources[1].spec, "hostPID"))
    /\ IsSetTrue(Field(resources[1].spec, "hostIPC"))
    /\ Len(findings) = 1
    /\ findings[1].reason = "Uses host PID namespace"

\* the value at spec.template.spec and at spec.jobTemplate.spec.template.spec
\* of a spec tree, Nil where a step of the path is missing
Step(val, k) == IF val.t = "map" THEN Field(val.v, k) ELSE Nil
AtTemplatePath(spec) == Step(Step(VMap(spec), "template"), "spec")
AtJobTemplatePath(spec) ==
    Step(Step(Step(Step(VMap(spec), "jobTemplate"), "spec"), "template"), "spec")

\* the pod spec located by the kind alone
PodSpecByKind(r) ==
    IF r.kind = "Pod" THEN VMap(r.spec)
    ELSE IF r.kind \in {"Deployment", "StatefulSet", "DaemonSet", "Job"}
    THEN AtTemplatePath(r.spec)
    ELSE IF r.kind = "CronJob" THEN AtJobTemplatePath(r.spec)
    ELSE Nil

\* C22: the pod spec the rules examine is located by the kind alone: the spec
\* root for Pod, spec.template.spec for Deployment, StatefulSet, DaemonSet and
\* Job, spec.jobTemplate.spec.template.spec for CronJob; a sub-tree at the
\* path of another kind is never used, so a pod-spec rule returns nothing for
\* a workload that has no map at the path of its kind.
C22_PodSpecByKind ==
    (pc \in PodSpecRules /\ resources[1].kind \in WorkloadKinds) =>
        LET r == resources[1]
            byKind == PodSpecByKind(r)
        IN  /\ GetPodSpec(r).ok <=> byKind.t = "map"
            /\ GetPodSpec(r).ok => GetPodSpec(r).spec = byKind.v
            /\ byKind.t # "map" => findings = <<>>

-----------------------------------------------------------------------------
(* The severity filter seen from the command line (specification SpecMain) *)

\* C23: without --include-medium no finding returned by Scan or Diff is
\* MEDIUM, the summary's medium count is 0, and the exit code derived from
\* the findings is 0 or 2, never 1.
C23_NoMediumByDefault ==
    ~includeMedium =>
        /\ \A f \in Range(findings) : f.severity # Medium
        /\ summary # NoSummary => summary.medium = 0
        /\ pc = "exited" => exitCode # ExitMedium
        /\ (pc = "exited" /\ err = "" /\ summary # NoSummary) =>
              exitCode \in {ExitOK, ExitHigh}

C23_Witness ==
    /\ ~includeMedium
    /\ command = "diff"
    /\ pc = "exited"
    /\ err = ""
    /\ \E f \in Range(Scan(resources, TRUE)) :
          f.severity = Medium /\ findingKey(f) \notin {findingKey(g) : g \in Range(Scan(oldResources, TRUE))}
    /\ findings = <<>>
    /\ summary.medium = 0
    /\ exitCode = ExitOK

-----------------------------------------------------------------------------
(* hostpath-volume and docker-socket-mount (specification SpecRules) *)

\* C24: in every Scan result, each docker-socket-mount finding comes after a
\* hostpath-volume finding with the same kind, name and namespace.
C24_DockerSocketImpliesHostPath ==
    pc = "scanned" =>
        \A k \in 1..Len(findings) :
            findings[k].ruleID = "docker-socket-mount" =>
                \E j \in 1..(k - 1) :
                    /\ findings[j].ruleID = "hostpath-volume"
                    /\ findings[j].kind = findings[k].kind
                    /\ findings[j].name = findings[k].name
                    /\ findings[j].namespace = findings[k].namespace

C24_Witness ==
    /\ pc = "scanned"
    /\ Len(resources) = 1
    /\ resources[1].kind = "Deployment"
    /\ Len(Volumes(GetPodSpec(resources[1]))) = 2
    /\ "emptyDir" \in DOMAIN Volumes(GetPodSpec(resources[1]))[1].v
    /\ Len(findings) = 2
    /\ findings[1].ruleID = "hostpath-volume"
    /\ findings[2].ruleID = "docker-socket-mount"

====
